---- MODULE Spec2Model ----
(***************************************************************************)
(* A model of scripts/generate_rsv_hierarchy.py: the lineage loader, the   *)
(* depth-first topological sort, the conversion to the silo hierarchy      *)
(* format, and the control flow of generate_hierarchy_file and main.       *)
(*                                                                         *)
(* A lineage name is a Python str, modelled as the sequence of its code    *)
(* points, so that sorted() compares names the way Python compares str.    *)
(* A dict (and an OrderedDict) is the sequence of its items in insertion   *)
(* order, each item a record [key, data] with distinct keys.               *)
(***************************************************************************)
EXTENDS Integers, Sequences, FiniteSets, TLC

VARIABLES
    args_subtype,   \* args.subtype: "A", "B" or "both"
    pc,             \* where the program is
    cur,            \* the subtype argument of the running generate_hierarchy_file
    lineages,       \* the dict built by load_lineage_files
    sorted_names,   \* convert_to_silo_format's local: topological_sort's result
    silo_hierarchy, \* the OrderedDict built by convert_to_silo_format
    wi,             \* how many entries the write loop has written
    files,          \* per subtype, the lineages.yaml under the output directory
    files0,         \* the same files as they were when main was invoked
    exc,            \* the exception raised out of generate_hierarchy_file, if any
    stdout,         \* what was printed to the standard output
    stderr,         \* what was printed to the error stream
    exit_status     \* <<>> while running, <<0>> or <<1>> once the process has exited

vars == <<args_subtype, pc, cur, lineages, sorted_names, silo_hierarchy, wi,
          files, files0, exc, stdout, stderr, exit_status>>

----------------------------------------------------------------------------
(* Bounds and input universes *)

\* The largest number of records a collection given to the Builder holds.
MaxRecords == 4

\* "none": the parent value of a root.
NONE_SENTINEL == <<110, 111, 110, 101>>

\* "A", "A.1", "A.1.1", "B"
NameA == <<65>>
NameA1 == <<65, 46, 49>>
NameA11 == <<65, 46, 49, 46, 49>>
NameB == <<66>>

\* The names a record of the Builder's input may carry; "none" is a legal name too.
Names == {NameA, NameA1, NameA11, NameB, NONE_SENTINEL}

\* The values a record's parent field may carry.
Parents == Names

Subtypes == {"A", "B"}

----------------------------------------------------------------------------
(* Python str comparison and sorted() *)

RECURSIVE StrLess(_, _)
\* a < b for two str: the first differing code point decides, a proper prefix is smaller.
StrLess(a, b) ==
    IF b = <<>> THEN FALSE
    ELSE IF a = <<>> THEN TRUE
    ELSE IF Head(a) # Head(b) THEN Head(a) < Head(b)
    ELSE StrLess(Tail(a), Tail(b))

RECURSIVE sort_insert(_, _)
\* x placed into the ascending list s, after every element not greater than x (stable).
sort_insert(x, s) ==
    IF s = <<>> THEN <<x>>
    ELSE IF StrLess(x, Head(s)) THEN <<x>> \o s
    ELSE <<Head(s)>> \o sort_insert(x, Tail(s))

RECURSIVE sort_insert_desc(_, _)
sort_insert_desc(x, s) ==
    IF s = <<>> THEN <<x>>
    ELSE IF StrLess(Head(s), x) THEN <<x>> \o s
    ELSE <<Head(s)>> \o sort_insert_desc(x, Tail(s))

RECURSIVE sorted_desc(_)
\* Mutant of sorted: descending order.
sorted_desc(s) ==
    IF s = <<>> THEN <<>>
    ELSE sort_insert_desc(s[Len(s)], sorted_desc(SubSeq(s, 1, Len(s) - 1)))

\* Mutant of sorted: the list is left in insertion order.
sorted_missing(s) == s

RECURSIVE sorted(_)
\* sorted(s): a new list, ascending.
sorted(s) ==
    IF s = <<>> THEN <<>>
    ELSE sort_insert(s[Len(s)], sorted(SubSeq(s, 1, Len(s) - 1)))

----------------------------------------------------------------------------
(* dict *)

dict_keys(d) == [i \in 1..Len(d) |-> d[i].key]

dict_has(d, k) == \E i \in 1..Len(d) : d[i].key = k

\* d[k]
dict_get(d, k) == d[CHOOSE i \in 1..Len(d) : d[i].key = k].data

\* d[k] = v: an existing key keeps its position, a new key goes last.
dict_set(d, k, v) ==
    IF dict_has(d, k)
    THEN [i \in 1..Len(d) |-> IF d[i].key = k THEN [key |-> k, data |-> v] ELSE d[i]]
    ELSE Append(d, [key |-> k, data |-> v])

----------------------------------------------------------------------------
(* topological_sort *)

\* data["parent"] raises KeyError for some record of the collection.
topological_sort_raises(l) ==
    \E i \in 1..Len(l) : "parent" \notin DOMAIN l[i].data

\* Mutant of roots: a record whose parent is not loaded is taken for a root too.
roots_lenient(l) ==
    LET IsRoot(e) == e.data.parent = NONE_SENTINEL \/ ~dict_has(l, e.data.parent)
    IN  dict_keys(SelectSeq(l, IsRoot))

\* The list roots after the first loop: the names with parent "none", in insertion order.
roots(l) ==
    LET IsRoot(e) == e.data.parent = NONE_SENTINEL
    IN  dict_keys(SelectSeq(l, IsRoot))

\* Mutant of children: the last child registered under a parent is lost.
children_short(l, parent) ==
    LET IsChild(e) == e.data.parent # NONE_SENTINEL /\ e.data.parent = parent
        all == dict_keys(SelectSeq(l, IsChild))
    IN  IF all = <<>> THEN <<>> ELSE SubSeq(all, 1, Len(all) - 1)

\* children[parent] after the first loop (a defaultdict: [] for an unknown parent).
children(l, parent) ==
    LET IsChild(e) == e.data.parent # NONE_SENTINEL /\ e.data.parent = parent
    IN  dict_keys(SelectSeq(l, IsChild))

RECURSIVE dfs_post(_, _, _)
RECURSIVE dfs_each_post(_, _, _)
\* Mutant of dfs: the node is appended after its children (post-order).
dfs_post(l, node, st) ==
    IF node \in st.visited THEN st
    ELSE LET after == dfs_each_post(l, sorted(children(l, node)),
                          [visited |-> st.visited \cup {node}, result |-> st.result])
         IN  [visited |-> after.visited, result |-> Append(after.result, node)]
dfs_each_post(l, nodes, st) ==
    IF nodes = <<>> THEN st
    ELSE dfs_each_post(l, Tail(nodes), dfs_post(l, Head(nodes), st))

RECURSIVE dfs(_, _, _)
RECURSIVE dfs_each(_, _, _)
\* dfs(node), with the closure's visited and result as st.
dfs(l, node, st) ==
    IF node \in st.visited THEN st
    ELSE dfs_each(l, sorted(children(l, node)),
                  [visited |-> st.visited \cup {node}, result |-> Append(st.result, node)])

\* for n in nodes: dfs(n)
dfs_each(l, nodes, st) ==
    IF nodes = <<>> THEN st
    ELSE dfs_each(l, Tail(nodes), dfs(l, Head(nodes), st))

RECURSIVE bfs(_, _, _)
bfs(l, queue, result) ==
    IF queue = <<>> THEN result
    ELSE IF \E i \in 1..Len(result) : result[i] = Head(queue)
         THEN bfs(l, Tail(queue), result)
         ELSE bfs(l, Tail(queue) \o sorted(children(l, Head(queue))),
                  Append(result, Head(queue)))

\* Mutant of topological_sort: a queue instead of the recursion (breadth-first).
topological_sort_bfs(l) == bfs(l, sorted(roots(l)), <<>>)

\* topological_sort(lineages), for a collection whose records all have a parent.
topological_sort(l) ==
    dfs_each(l, sorted(roots(l)), [visited |-> {}, result |-> <<>>]).result

----------------------------------------------------------------------------
(* convert_to_silo_format *)

\* Mutant of silo_entry: the sentinel is not told from a parent.
silo_entry_unguarded(data) ==
    [aliases |-> <<>>, parents |-> <<data.parent>>]

\* The entry stored under a name.
silo_entry(data) ==
    [aliases |-> <<>>,
     parents |-> IF data.parent # NONE_SENTINEL THEN <<data.parent>> ELSE <<>>]

\* The OrderedDict: one item per sorted name, in that order.
convert_to_silo_format(l) ==
    LET names == topological_sort(l)
    IN  [i \in 1..Len(names) |->
            [key |-> names[i], data |-> silo_entry(dict_get(l, names[i]))]]

----------------------------------------------------------------------------
(* The output file *)

NoFile == [exists |-> FALSE, lines |-> <<>>]

Line(text, name) == [text |-> text, name |-> name]

RECURSIVE parent_lines(_)
\* for parent in parents: f.write(f"  - {parent}\n")
parent_lines(parents) ==
    IF parents = <<>> THEN <<>>
    ELSE <<Line("  - ", Head(parents))>> \o parent_lines(Tail(parents))

\* What one iteration of the write loop writes for an item of silo_hierarchy.
entry_lines(item) ==
    <<Line(":", item.key), Line("  aliases: []", <<>>)>>
    \o (IF item.data.parents # <<>>
        THEN <<Line("  parents:", <<>>)>> \o parent_lines(item.data.parents)
        ELSE <<Line("  parents: []", <<>>)>>)

\* A lineages.yaml left by an earlier run: the single root "B".
StaleFile ==
    [exists |-> TRUE,
     lines |-> entry_lines([key |-> NameB, data |-> [aliases |-> <<>>, parents |-> <<>>]])]

----------------------------------------------------------------------------
(* The records a downloaded repository may hold (one per *.yml file) *)

RepoRecords ==
    { [name |-> NameA, parent |-> NONE_SENTINEL],
      [name |-> NameA1, parent |-> NameA],
      [name |-> NameA1, parent |-> NameB],
      [name |-> NameA1],
      [parent |-> NONE_SENTINEL] }

\* The collection holding the records named ks[i] with parent ps[i], inserted in that order.
Collection(ks, ps) ==
    [i \in 1..Len(ks) |-> [key |-> ks[i], data |-> [name |-> ks[i], parent |-> ps[i]]]]

NoExc == [type |-> "none", stage |-> "none"]

----------------------------------------------------------------------------
(* generate_hierarchy_file and main *)

locals == <<lineages, sorted_names, silo_hierarchy, wi>>
io == <<files, stdout, stderr, exit_status>>

\* An exception of the given type leaves generate_hierarchy_file.
Raise(type, stage) ==
    /\ exc' = [type |-> type, stage |-> stage]
    /\ pc' = "except"

\* generate_hierarchy_file(subtype, ...) is entered.
Call(subtype) ==
    /\ cur' = subtype
    /\ pc' = "download"
    /\ lineages' = <<>>
    /\ sorted_names' = <<>>
    /\ silo_hierarchy' = <<>>
    /\ wi' = 0

\* if args.subtype in ["A", "both"]: generate_hierarchy_file("A", ...)
MainA ==
    /\ pc = "main_A"
    /\ IF args_subtype \in {"A", "both"}
       THEN Call("A")
       ELSE pc' = "main_B" /\ UNCHANGED <<cur, locals>>
    /\ UNCHANGED <<args_subtype, files0, exc, io>>

\* if args.subtype in ["B", "both"]: generate_hierarchy_file("B", ...)
MainB ==
    /\ pc = "main_B"
    /\ IF args_subtype \in {"B", "both"}
       THEN Call("B")
       ELSE pc' = "main_end" /\ UNCHANGED <<cur, locals>>
    /\ UNCHANGED <<args_subtype, files0, exc, io>>

\* download_repo_zip returns the extracted directory.
DownloadOk ==
    /\ pc = "download"
    /\ pc' = "load_start"
    /\ UNCHANGED <<args_subtype, cur, locals, files0, exc, io>>

\* download_repo_zip raises: the HTTP status, or no extracted directory.
DownloadRaise ==
    /\ pc = "download"
    /\ \E type \in {"HTTPError", "ValueError"} : Raise(type, "download")
    /\ UNCHANGED <<args_subtype, cur, locals, files0, io>>

\* Mutant of LoadStart: the output file is opened before the records are loaded.
LoadStart_opens_output ==
    /\ pc = "load_start"
    /\ lineages' = <<>>
    /\ pc' = "load"
    /\ files' = [files EXCEPT ![cur] = [exists |-> TRUE, lines |-> <<>>]]
    /\ UNCHANGED <<args_subtype, cur, sorted_names, silo_hierarchy, wi, files0, exc,
                   stdout, stderr, exit_status>>

\* load_lineage_files: the lineages directory exists, lineages = {}.
LoadStart ==
    /\ pc = "load_start"
    /\ lineages' = <<>>
    /\ pc' = "load"
    /\ UNCHANGED <<args_subtype, cur, sorted_names, silo_hierarchy, wi, files0, exc, io>>

\* load_lineage_files: the lineages directory does not exist.
LoadNoDir ==
    /\ pc = "load_start"
    /\ Raise("ValueError", "load")
    /\ UNCHANGED <<args_subtype, cur, locals, files0, io>>

\* One iteration of the glob loop: lineages[data["name"]] = data.
LoadFileOk(data) ==
    /\ pc = "load"
    /\ "name" \in DOMAIN data
    /\ dict_has(lineages, data.name) \/ Len(lineages) < MaxRecords
    /\ lineages' = dict_set(lineages, data.name, data)
    /\ UNCHANGED <<args_subtype, pc, cur, sorted_names, silo_hierarchy, wi, files0, exc, io>>

\* One iteration of the glob loop: data["name"] raises KeyError.
LoadFileRaise(data) ==
    /\ pc = "load"
    /\ "name" \notin DOMAIN data
    /\ Raise("KeyError", "load")
    /\ UNCHANGED <<args_subtype, cur, locals, files0, io>>

\* The glob is exhausted: return lineages.
LoadReturn ==
    /\ pc = "load"
    /\ pc' = "loaded"
    /\ UNCHANGED <<args_subtype, cur, locals, files0, exc, io>>

\* silo_hierarchy = convert_to_silo_format(lineages)
ConvertOk ==
    /\ pc = "loaded"
    /\ ~topological_sort_raises(lineages)
    /\ sorted_names' = topological_sort(lineages)
    /\ silo_hierarchy' = convert_to_silo_format(lineages)
    /\ pc' = "built"
    /\ UNCHANGED <<args_subtype, cur, lineages, wi, files0, exc, io>>

\* convert_to_silo_format raises: topological_sort reads data["parent"].
ConvertRaise ==
    /\ pc = "loaded"
    /\ topological_sort_raises(lineages)
    /\ Raise("KeyError", "build")
    /\ UNCHANGED <<args_subtype, cur, locals, files0, io>>

\* os.makedirs(...); open(output_file, "w"): the file is created or truncated.
OpenOutput ==
    /\ pc = "built"
    /\ files' = [files EXCEPT ![cur] = [exists |-> TRUE, lines |-> <<>>]]
    /\ wi' = 0
    /\ pc' = "write"
    /\ UNCHANGED <<args_subtype, cur, lineages, sorted_names, silo_hierarchy, files0, exc,
                   stdout, stderr, exit_status>>

\* os.makedirs or open raises.
OpenRaise ==
    /\ pc = "built"
    /\ Raise("OSError", "write")
    /\ UNCHANGED <<args_subtype, cur, locals, files0, io>>

\* One iteration of the write loop.
WriteEntry ==
    /\ pc = "write"
    /\ wi < Len(silo_hierarchy)
    /\ files' = [files EXCEPT ![cur].lines = @ \o entry_lines(silo_hierarchy[wi + 1])]
    /\ wi' = wi + 1
    /\ UNCHANGED <<args_subtype, pc, cur, lineages, sorted_names, silo_hierarchy, files0, exc,
                   stdout, stderr, exit_status>>

\* A write raises: what was written so far stays in the file.
WriteRaise ==
    /\ pc = "write"
    /\ wi < Len(silo_hierarchy)
    /\ Raise("OSError", "write")
    /\ UNCHANGED <<args_subtype, cur, locals, files0, io>>

\* The loop is over: the file is closed, the path printed, the function returns.
CloseOutput ==
    /\ pc = "write"
    /\ wi = Len(silo_hierarchy)
    /\ stdout' = Append(stdout, [text |-> "Generated hierarchy file", subtype |-> cur])
    /\ pc' = IF cur = "A" THEN "main_B" ELSE "main_end"
    /\ lineages' = <<>>
    /\ sorted_names' = <<>>
    /\ silo_hierarchy' = <<>>
    /\ wi' = 0
    /\ UNCHANGED <<args_subtype, cur, files, files0, exc, stderr, exit_status>>

\* The end of the try block: the success message; main returns and the process exits 0.
MainEnd ==
    /\ pc = "main_end"
    /\ stdout' = Append(stdout, [text |-> "completed successfully", subtype |-> args_subtype])
    /\ exit_status' = <<0>>
    /\ pc' = "exit"
    /\ UNCHANGED <<args_subtype, cur, locals, files, files0, exc, stderr>>

\* Mutant of Except: the message is printed but sys.exit(1) is missing.
Except_no_exit ==
    /\ pc = "except"
    /\ stderr' = Append(stderr, [text |-> "Error", e |-> exc])
    /\ exit_status' = <<0>>
    /\ pc' = "exit"
    /\ UNCHANGED <<args_subtype, cur, locals, files, files0, exc, stdout>>

\* except Exception as e: print to stderr, sys.exit(1).
Except ==
    /\ pc = "except"
    /\ stderr' = Append(stderr, [text |-> "Error", e |-> exc])
    /\ exit_status' = <<1>>
    /\ pc' = "exit"
    /\ UNCHANGED <<args_subtype, cur, locals, files, files0, exc, stdout>>

----------------------------------------------------------------------------
(* Spec: one invocation of main *)

Init ==
    /\ args_subtype \in {"A", "B", "both"}
    /\ pc = "main_A"
    /\ cur = "A"
    /\ lineages = <<>>
    /\ sorted_names = <<>>
    /\ silo_hierarchy = <<>>
    /\ wi = 0
    /\ files \in [Subtypes -> {NoFile, StaleFile}]
    /\ files0 = files
    /\ exc = NoExc
    /\ stdout = <<>>
    /\ stderr = <<>>
    /\ exit_status = <<>>

Next ==
    \/ MainA
    \/ MainB
    \/ DownloadOk
    \/ DownloadRaise
    \/ LoadStart
    \/ LoadNoDir
    \/ \E data \in RepoRecords : LoadFileOk(data)
    \/ \E data \in RepoRecords : LoadFileRaise(data)
    \/ LoadReturn
    \/ ConvertOk
    \/ ConvertRaise
    \/ OpenOutput
    \/ OpenRaise
    \/ WriteEntry
    \/ WriteRaise
    \/ CloseOutput
    \/ MainEnd
    \/ Except

Spec == Init /\ [][Next]_vars

----------------------------------------------------------------------------
(* SpecBuild: the Builder applied to every bounded collection *)

InitBuild ==
    /\ args_subtype = "A"
    /\ pc = "loaded"
    /\ cur = "A"
    /\ \E k \in 0..MaxRecords :
         \E ks \in [1..k -> Names] :
            /\ \A i, j \in 1..k : i # j => ks[i] # ks[j]
            /\ \E ps \in [1..k -> Parents] : lineages = Collection(ks, ps)
    /\ sorted_names = <<>>
    /\ silo_hierarchy = <<>>
    /\ wi = 0
    /\ files = [s \in Subtypes |-> NoFile]
    /\ files0 = files
    /\ exc = NoExc
    /\ stdout = <<>>
    /\ stderr = <<>>
    /\ exit_status = <<>>

NextBuild == ConvertOk

SpecBuild == InitBuild /\ [][NextBuild]_vars

----------------------------------------------------------------------------
(* Vocabulary of the properties *)

Built == pc = "built"

Emitted(name) == \E i \in 1..Len(sorted_names) : sorted_names[i] = name

\* The parent reference of a loaded record.
ParentOf(name) == dict_get(lineages, name).parent

RecordSet == {lineages[i].data : i \in 1..Len(lineages)}

Rec(name, parent) == [name |-> name, parent |-> parent]

RECURSIVE ReachesRoot(_, _)
\* Following parent references from a loaded record reaches a root within fuel steps.
ReachesRoot(name, fuel) ==
    /\ dict_has(lineages, name)
    /\ \/ ParentOf(name) = NONE_SENTINEL
       \/ fuel > 0 /\ ReachesRoot(ParentOf(name), fuel - 1)

RECURSIVE IsAncestor(_, _, _)
\* anc is met when following parent references from a loaded record, within fuel steps.
IsAncestor(anc, name, fuel) ==
    /\ dict_has(lineages, name)
    /\ ParentOf(name) # NONE_SENTINEL
    /\ \/ ParentOf(name) = anc
       \/ fuel > 0 /\ IsAncestor(anc, ParentOf(name), fuel - 1)

\* The same items with the first two exchanged, and with the first moved last.
SwapFirst(d) ==
    IF Len(d) < 2 THEN d ELSE <<d[2], d[1]>> \o SubSeq(d, 3, Len(d))
Rotate(d) ==
    IF Len(d) < 2 THEN d ELSE Tail(d) \o <<Head(d)>>

Selected == IF args_subtype = "both" THEN {"A", "B"} ELSE {args_subtype}

Generated(s) ==
    \E i \in 1..Len(stdout) : stdout[i] = [text |-> "Generated hierarchy file", subtype |-> s]

----------------------------------------------------------------------------
(* Properties of the Builder, checked under SpecBuild *)

\* C1 as stated: every record with a parent other than "none" is in the output, after
\* its parent.
C1_EveryRecordAfterParent ==
    Built =>
        \A i \in 1..Len(lineages) :
            lineages[i].data.parent # NONE_SENTINEL =>
                \E a, b \in 1..Len(sorted_names) :
                    /\ sorted_names[a] = lineages[i].data.parent
                    /\ sorted_names[b] = lineages[i].key
                    /\ a < b

\* C1 amended: every emitted record with a parent other than "none" has its parent
\* emitted at a strictly smaller index.
C1_EmittedAfterParent ==
    Built =>
        \A b \in 1..Len(sorted_names) :
            ParentOf(sorted_names[b]) # NONE_SENTINEL =>
                \E a \in 1..(b - 1) : sorted_names[a] = ParentOf(sorted_names[b])

C1_Witness ==
    /\ Built
    /\ Len(sorted_names) >= 3
    /\ \E b \in 1..Len(sorted_names) : ParentOf(sorted_names[b]) # NONE_SENTINEL
    /\ dict_keys(lineages)[1] # sorted_names[1]

\* C2: the output depends on the set of records only: a collection holding the same
\* records in another insertion order (any order is reached by exchanging the first
\* two items and by rotating) gives the same names in the same order and the same
\* hierarchy.
C2_InsertionOrderIrrelevant ==
    Built =>
        /\ topological_sort(SwapFirst(lineages)) = sorted_names
        /\ topological_sort(Rotate(lineages)) = sorted_names
        /\ convert_to_silo_format(SwapFirst(lineages)) = silo_hierarchy
        /\ convert_to_silo_format(Rotate(lineages)) = silo_hierarchy

C2_Witness ==
    /\ Built
    /\ Len(sorted_names) >= 3
    /\ dict_keys(lineages) # sorted_names
    /\ dict_keys(SwapFirst(lineages)) # dict_keys(lineages)

\* C3: a record from which following parent references never reaches a root (its
\* parent, or an ancestor, is not loaded, or is itself, or lies on a cycle) is not in
\* the output, and the conversion of a collection holding such records does not raise.
C3_OrphansOmitted ==
    /\ pc = "loaded" => ~topological_sort_raises(lineages)
    /\ Built =>
        \A i \in 1..Len(lineages) :
            /\ (/\ lineages[i].data.parent # NONE_SENTINEL
                /\ ~dict_has(lineages, lineages[i].data.parent))
               => ~Emitted(lineages[i].key)
            /\ ~ReachesRoot(lineages[i].key, Len(lineages)) => ~Emitted(lineages[i].key)

C3_Witness ==
    /\ Built
    /\ Len(sorted_names) >= 1
    /\ \E i, j \in 1..Len(lineages) :
        /\ i # j
        /\ lineages[i].data.parent # NONE_SENTINEL
        /\ ~dict_has(lineages, lineages[i].data.parent)
        /\ ~Emitted(lineages[i].key)
        /\ lineages[j].data.parent = lineages[j].key
        /\ ~Emitted(lineages[j].key)

\* C4: every entry of the hierarchy has no aliases, and its parents are the source
\* record's parent alone, or nothing when that parent is "none".
C4_EntryMirrorsRecord ==
    Built =>
        /\ Len(silo_hierarchy) = Len(sorted_names)
        /\ \A i \in 1..Len(silo_hierarchy) :
            LET name == silo_hierarchy[i].key
                entry == silo_hierarchy[i].data
            IN  /\ name = sorted_names[i]
                /\ entry.aliases = <<>>
                /\ Len(entry.parents) <= 1
                /\ ParentOf(name) = NONE_SENTINEL => entry.parents = <<>>
                /\ ParentOf(name) # NONE_SENTINEL => entry.parents = <<ParentOf(name)>>

C4_Witness ==
    /\ Built
    /\ \E i, j \in 1..Len(silo_hierarchy) :
        /\ silo_hierarchy[i].data.parents = <<>>
        /\ silo_hierarchy[j].data.parents = <<silo_hierarchy[i].key>>

\* C5: two emitted records with the same parent, and two roots, are in ascending order
\* of name whatever the insertion order; roots {B, A} give [A, B], and root A with
\* children B and A.1 gives [A, A.1, B].
C5_SiblingsAscending ==
    Built =>
        /\ \A i, j \in 1..Len(sorted_names) :
            (i < j /\ ParentOf(sorted_names[i]) = ParentOf(sorted_names[j]))
                => StrLess(sorted_names[i], sorted_names[j])
        /\ RecordSet = {Rec(NameB, NONE_SENTINEL), Rec(NameA, NONE_SENTINEL)}
            => sorted_names = <<NameA, NameB>>
        /\ RecordSet = {Rec(NameA, NONE_SENTINEL), Rec(NameB, NameA), Rec(NameA1, NameA)}
            => sorted_names = <<NameA, NameA1, NameB>>

C5_Witness ==
    /\ Built
    /\ dict_keys(lineages) = <<NameB, NameA1, NameA>>
    /\ RecordSet = {Rec(NameA, NONE_SENTINEL), Rec(NameB, NameA), Rec(NameA1, NameA)}
    /\ sorted_names = <<NameA, NameA1, NameB>>

\* C9: the output is a depth-first pre-order: the emitted descendants of an emitted
\* node are exactly the names right after it; {A: none, A.1: A, B: A, A.1.1: A.1}
\* gives [A, A.1, A.1.1, B].
C9_DescendantsContiguous ==
    Built =>
        /\ \A i \in 1..Len(sorted_names) :
            LET D == {j \in 1..Len(sorted_names) :
                        IsAncestor(sorted_names[i], sorted_names[j], Len(lineages))}
            IN  D = (i + 1)..(i + Cardinality(D))
        /\ RecordSet = {Rec(NameA, NONE_SENTINEL), Rec(NameA1, NameA),
                        Rec(NameB, NameA), Rec(NameA11, NameA1)}
            => sorted_names = <<NameA, NameA1, NameA11, NameB>>

C9_Witness ==
    /\ Built
    /\ RecordSet = {Rec(NameA, NONE_SENTINEL), Rec(NameA1, NameA),
                    Rec(NameB, NameA), Rec(NameA11, NameA1)}
    /\ sorted_names = <<NameA, NameA1, NameA11, NameB>>

\* C10: every record whose parent references lead to a root through loaded records is
\* in the output, no name is in it twice, and every name in it is a key of the
\* collection.
C10_ReachableOnceAndLoaded ==
    Built =>
        /\ \A i \in 1..Len(lineages) :
            ReachesRoot(lineages[i].key, Len(lineages)) => Emitted(lineages[i].key)
        /\ \A i, j \in 1..Len(sorted_names) :
            i # j => sorted_names[i] # sorted_names[j]
        /\ \A i \in 1..Len(sorted_names) : dict_has(lineages, sorted_names[i])

C10_Witness ==
    /\ Built
    /\ Len(sorted_names) = 2
    /\ \E i, j \in 1..Len(lineages) :
        /\ i # j
        /\ lineages[i].data.parent = lineages[j].key
        /\ lineages[j].data.parent = lineages[i].key

----------------------------------------------------------------------------
(* Properties of generate_hierarchy_file and main, checked under Spec *)

\* C6: when the download, the loading or the building of a subtype fails, that
\* subtype's lineages.yaml is what it was when the run began: neither created nor
\* modified. The same holds at every point before the file is opened.
C6_NoOutputOnEarlyFailure ==
    /\ exc.stage \in {"download", "load", "build"} => files[cur] = files0[cur]
    /\ pc \in {"download", "load_start", "load", "loaded", "built"}
        => files[cur] = files0[cur]

C6_Witness ==
    /\ pc = "exit"
    /\ args_subtype = "both"
    /\ cur = "B"
    /\ exc = [type |-> "KeyError", stage |-> "build"]
    /\ files["A"] # files0["A"]
    /\ files["B"] = StaleFile

\* C7: the process exits 0 only when every selected subtype was generated and nothing
\* was raised; when a generation raised, it exits 1 and the error stream holds the
\* message.
C7_ExitStatus ==
    /\ pc # "exit" => exit_status = <<>>
    /\ pc = "exit" =>
        /\ exit_status \in {<<0>>, <<1>>}
        /\ exit_status = <<0>> =>
            /\ exc = NoExc
            /\ \A s \in Selected : Generated(s) /\ files[s].exists
        /\ (exc # NoExc \/ \E s \in Selected : ~Generated(s)) =>
            /\ exit_status = <<1>>
            /\ stderr = <<[text |-> "Error", e |-> exc]>>
            /\ exc # NoExc

C7_Witness ==
    /\ pc = "exit"
    /\ args_subtype = "both"
    /\ Generated("A")
    /\ ~Generated("B")
    /\ exit_status = <<1>>

\* C8 as stated: load_lineage_files never returns a collection holding a record that
\* lacks the name field or the parent field.
C8_LoaderRejectsMalformed ==
    pc = "loaded" =>
        \A i \in 1..Len(lineages) : {"name", "parent"} \subseteq DOMAIN lineages[i].data

====
